---- MODULE Spec2Model ----
(***************************************************************************)
(* Model of the SplitSurface component (src/unnamed/part_000, the file     *)
(* src/SplitSurface.js of the application): the React state of the         *)
(* component, its handlers, and splitSurface, the partition of the canvas  *)
(* rectangle by the blades built from the polylines.                        *)
(*                                                                         *)
(* Real-valued coordinates (x, y) are fixed-point integers counting        *)
(* 1/Unit of a canvas unit, Unit = 10 * scale, so that scaleUpPath's       *)
(* Math.round has a fractional part to round.  Lattice coordinates (X, Y)  *)
(* are the integers ClipperLib works on.                                   *)
(***************************************************************************)
EXTENDS Integers, Sequences, FiniteSets, TLC

\* ------------------------------------------------------------------ bounds
\* Largest width / height typed into the size inputs (canvas units).
MaxDim == 2
\* Longest polylines list the model lets the board hold.
MaxCuts == 2
\* Longest list of points of a path or of a polyline.
MaxPoints == 3
\* Largest maxSegments a lightning strike is generated with.
MaxSegments == 2

\* ------------------------------------------------------- program constants
\* const scale = 100 (splitSurface)
scale == 100
\* const lineWidth = 1 (splitSurface, per polyline)
lineWidth == 1
\* Fixed-point units per canvas unit for the real-valued coordinates.
Unit == 10 * scale
\* The arguments of clipper.Execute in splitSurface.
clipType == "ctDifference"
subjFillType == "pftNonZero"
\* The parity rule for the clip paths.
clipFillTypeEvenOdd == "pftEvenOdd"
clipFillType == "pftNonZero"

\* ---------------------------------------------------------------- numbers
Abs(a) == IF a < 0 THEN -a ELSE a

Min(a, b) == IF a <= b THEN a ELSE b

Max(a, b) == IF a >= b THEN a ELSE b

\* floor(num / den) for den > 0.
FloorDiv(num, den) == num \div den

\* Math.round of the real num / den (den > 0): floor(num/den + 1/2), halves
\* go towards +Infinity.
MathRound(num, den) == FloorDiv(2 * num + den, 2 * den)

\* The integer nearest to num / den, for any den # 0 (lattice arithmetic of
\* the clipping engine).
RoundDiv(num, den) ==
    IF den > 0 THEN MathRound(num, den) ELSE MathRound(-num, -den)

RECURSIVE SqrtSearch(_, _, _)
\* Largest r in lo..hi with r * r <= n (lo * lo <= n < (hi + 1) * (hi + 1)).
SqrtSearch(n, lo, hi) ==
    IF lo >= hi THEN lo
    ELSE LET mid == (lo + hi + 1) \div 2
         IN  IF mid * mid <= n THEN SqrtSearch(n, mid, hi)
             ELSE SqrtSearch(n, lo, mid - 1)

\* floor(sqrt(n)) for 0 <= n < 2^30.
ISqrt(n) == SqrtSearch(n, 0, 32767)

RECURSIVE Gcd(_, _)
Gcd(a, b) == IF b = 0 THEN a ELSE Gcd(b, a % b)

\* ----------------------------------------------------------------- points
Pt(x, y) == [x |-> x, y |-> y]

LPt(X, Y) == [X |-> X, Y |-> Y]

\* Scaling up with Math.floor in the place of Math.round.
scaleUpPathFloor(path, sc) ==
    [i \in 1..Len(path) |->
        LPt(FloorDiv(path[i].x * sc, Unit), FloorDiv(path[i].y * sc, Unit))]

\* Helper function to scale up the path coordinates:
\* X: Math.round(point.x * scale), Y: Math.round(point.y * scale).
scaleUpPath(path, sc) ==
    [i \in 1..Len(path) |->
        LPt(MathRound(path[i].x * sc, Unit), MathRound(path[i].y * sc, Unit))]

\* Scaling down with point.X taken for both coordinates.
scaleDownPathTypo(path, sc) ==
    [i \in 1..Len(path) |->
        Pt((path[i].X * Unit) \div sc, (path[i].X * Unit) \div sc)]

\* Helper function to scale down the path coordinates: x: point.X / scale.
scaleDownPath(path, sc) ==
    [i \in 1..Len(path) |->
        Pt((path[i].X * Unit) \div sc, (path[i].Y * Unit) \div sc)]

\* mainPolygon of splitSurface: the canvas rectangle for width w, height h.
mainPolygon(w, h) ==
    << Pt(0, 0), Pt(w * Unit, 0), Pt(w * Unit, h * Unit), Pt(0, h * Unit) >>

\* ------------------------------------------------------------------ blades
\* |c| / sqrt(dx*dx + dy*dy) * (offset / scale), to the nearest 1/Unit, for
\* c one of dx, dy; the direction is reduced by its gcd first so that the
\* squares stay small.
NormTimesHalf(c, dx, dy) ==
    LET g == Gcd(Abs(dx), Abs(dy))
        a == dx \div g
        b == dy \div g
        cc == Abs(c) \div g
        offset == (lineWidth * scale) \div 2
        half == (offset * Unit) \div scale
        mag == (ISqrt((4 * half * half * cc * cc) \div (a * a + b * b)) + 1) \div 2
    IN  IF c < 0 THEN -mag ELSE mag

\* length === 0 in the forEach body of splitSurface.
ZeroLength(line) ==
    /\ line.points[2].x - line.points[1].x = 0
    /\ line.points[2].y - line.points[1].y = 0

\* The thin polygon built from points[1] and points[2] when the polyline
\* has a third point: the indices one too far.
BladePathSecondSegment(line) ==
    LET k == IF Len(line.points) >= 3 THEN 2 ELSE 1
        p0 == line.points[k]
        p1 == line.points[k + 1]
        dx == p1.x - p0.x
        dy == p1.y - p0.y
        nx == NormTimesHalf(dy, dx, dy)
        ny == -NormTimesHalf(dx, dx, dy)
    IN  << Pt(p0.x + nx, p0.y + ny), Pt(p1.x + nx, p1.y + ny),
           Pt(p1.x - nx, p1.y - ny), Pt(p0.x - nx, p0.y - ny) >>

\* The thin polygon with normY = dx / length, the minus sign dropped.
BladePathSignDropped(line) ==
    LET p0 == line.points[1]
        p1 == line.points[2]
        dx == p1.x - p0.x
        dy == p1.y - p0.y
        nx == NormTimesHalf(dy, dx, dy)
        ny == NormTimesHalf(dx, dx, dy)
    IN  << Pt(p0.x + nx, p0.y + ny), Pt(p1.x + nx, p1.y + ny),
           Pt(p1.x - nx, p1.y - ny), Pt(p0.x - nx, p0.y - ny) >>

\* The thin polygon offset along the line (dx / length, dy / length) and
\* not across it.
BladePathAlong(line) ==
    LET p0 == line.points[1]
        p1 == line.points[2]
        dx == p1.x - p0.x
        dy == p1.y - p0.y
        nx == NormTimesHalf(dx, dx, dy)
        ny == NormTimesHalf(dy, dx, dy)
    IN  << Pt(p0.x + nx, p0.y + ny), Pt(p1.x + nx, p1.y + ny),
           Pt(p1.x - nx, p1.y - ny), Pt(p0.x - nx, p0.y - ny) >>

\* The thin polygon with offset = lineWidth * scale, the halving left out.
BladePathFullWidth(line) ==
    LET p0 == line.points[1]
        p1 == line.points[2]
        dx == p1.x - p0.x
        dy == p1.y - p0.y
        nx == 2 * NormTimesHalf(dy, dx, dy)
        ny == -2 * NormTimesHalf(dx, dx, dy)
    IN  << Pt(p0.x + nx, p0.y + ny), Pt(p1.x + nx, p1.y + ny),
           Pt(p1.x - nx, p1.y - ny), Pt(p0.x - nx, p0.y - ny) >>

\* The thin polygon built from points[0] and points[1] of a polyline.
BladePath(line) ==
    LET p0 == line.points[1]
        p1 == line.points[2]
        dx == p1.x - p0.x
        dy == p1.y - p0.y
        nx == NormTimesHalf(dy, dx, dy)
        ny == -NormTimesHalf(dx, dx, dy)
    IN  << Pt(p0.x + nx, p0.y + ny), Pt(p1.x + nx, p1.y + ny),
           Pt(p1.x - nx, p1.y - ny), Pt(p0.x - nx, p0.y - ny) >>

\* ------------------------------------------------- the clipping engine
\* ClipperLib (the clipper-lib package) is a dependency, not part of the
\* repository: the engine is modelled from the component design of the
\* clipping engine, a scanline difference under the non-zero rule on lattice
\* points, with closed rings as output.

\* new ClipperLib.Clipper(): no path added.
NewClipper == [subj |-> << >>, clip |-> << >>]

\* Twice the signed area of a closed ring of lattice points (shoelace).
LArea2(path) ==
    LET n == Len(path)
        nx(i) == IF i = n THEN 1 ELSE i + 1
        term(i) == path[i].X * path[nx(i)].Y - path[nx(i)].X * path[i].Y
        S[i \in 0..n] == IF i = 0 THEN 0 ELSE S[i - 1] + term(i)
    IN  S[n]

\* A closed path is taken only if it spans some area: a ring whose points
\* are all on one line has no edge left after the duplicate and collinear
\* points are removed.
PathAccepted(path) ==
    /\ Len(path) >= 3
    /\ \E i, j, k \in 1..Len(path) :
          (path[j].X - path[i].X) * (path[k].Y - path[i].Y)
            # (path[k].X - path[i].X) * (path[j].Y - path[i].Y)

\* clipper.AddPath(path, polyType, true)
AddPath(clipper, path, polyType) ==
    IF ~PathAccepted(path) THEN clipper
    ELSE IF polyType = "ptSubject"
         THEN [clipper EXCEPT !.subj = Append(@, path)]
         ELSE [clipper EXCEPT !.clip = Append(@, path)]

\* Step 2: the non-horizontal edges of a ring, bottom end first, tagged with
\* the role of the ring and the vertical direction of the edge.
PathEdges(path, role, pid) ==
    LET n == Len(path)
        nx(i) == IF i = n THEN 1 ELSE i + 1
    IN  { [xb |-> IF path[i].Y < path[nx(i)].Y THEN path[i].X ELSE path[nx(i)].X,
           yb |-> Min(path[i].Y, path[nx(i)].Y),
           xt |-> IF path[i].Y < path[nx(i)].Y THEN path[nx(i)].X ELSE path[i].X,
           yt |-> Max(path[i].Y, path[nx(i)].Y),
           dir |-> IF path[i].Y < path[nx(i)].Y THEN 1 ELSE -1,
           role |-> role, pid |-> pid, k |-> i]
          : i \in {j \in 1..n : path[j].Y # path[nx(j)].Y} }

ClipperEdges(clipper) ==
    UNION ({PathEdges(clipper.subj[p], "subject", p) : p \in 1..Len(clipper.subj)}
           \cup {PathEdges(clipper.clip[p], "clip", p) : p \in 1..Len(clipper.clip)})

\* X of an edge at the scanline y (yb <= y <= yt).
XAt(e, y) == e.xb + RoundDiv((y - e.yb) * (e.xt - e.xb), e.yt - e.yb)

\* The Y at which two edges cross, or {} when they are parallel or do not
\* cross strictly inside both (each direction reduced by its gcd first).
CrossingYs(e, f) ==
    LET eg == Gcd(Abs(e.xt - e.xb), e.yt - e.yb)
        fg == Gcd(Abs(f.xt - f.xb), f.yt - f.yb)
        edx == (e.xt - e.xb) \div eg
        edy == (e.yt - e.yb) \div eg
        fdx == (f.xt - f.xb) \div fg
        fdy == (f.yt - f.yb) \div fg
        den == edx * fdy - fdx * edy
        num == (f.xb - e.xb) * edy * fdy + e.yb * edx * fdy - f.yb * fdx * edy
    IN  IF den = 0 THEN {}
        ELSE LET y == RoundDiv(num, den)
             IN  IF y > Max(e.yb, f.yb) /\ y < Min(e.yt, f.yt) THEN {y} ELSE {}

\* Step 3: the scanline events, every edge's start Y and end Y and every
\* crossing of two edges (two vertical edges are parallel and never cross,
\* so one edge of a crossing pair is slanted).
EventYs(E) ==
    {e.yb : e \in E} \cup {e.yt : e \in E}
      \cup UNION {CrossingYs(e, f) : e \in {g \in E : g.xb # g.xt}, f \in E}

RECURSIVE SortInts(_)
\* The members of a finite set of integers, ascending.
SortInts(S) ==
    IF S = {} THEN << >>
    ELSE LET m == CHOOSE x \in S : \A y \in S : x <= y
         IN  << m >> \o SortInts(S \ {m})

\* The key of an edge in the band between the scanlines ya < yb: its X on
\* both; the active edge list is ordered by the sum.
KeyOf(e, ya, yb) == << XAt(e, ya), XAt(e, yb) >>

KeySum(k) == k[1] + k[2]

\* Step 4: the winding count of a role just right of the key with sum s,
\* from the active edges T of a band, each with its key.
Winding(T, role, s) ==
    LET left == {t \in T : t.role = role /\ KeySum(t.key) <= s}
    IN  Cardinality({t \in left : t.dir = 1}) - Cardinality({t \in left : t.dir = -1})

\* Step 4: a winding count is inside under the fill rule of its role.
Filled(w, fillType) ==
    IF fillType = "pftEvenOdd" THEN w % 2 # 0 ELSE w # 0

\* Step 5: the boolean operation; for ctDifference, inside the subject and
\* not inside any clip.
InResult(ws, wc) ==
    IF clipType = "ctDifference"
    THEN Filled(ws, subjFillType) /\ ~Filled(wc, clipFillType)
    ELSE Filled(ws, subjFillType) /\ Filled(wc, clipFillType)

\* One band of the sweep: the keys of the active edges in order, and for
\* each whether the strip to its right is part of the result.
Band(E, ya, yb) ==
    LET T == {[key |-> KeyOf(e, ya, yb), role |-> e.role, dir |-> e.dir,
               pid |-> e.pid, k |-> e.k] : e \in {g \in E : g.yb <= ya /\ g.yt >= yb}}
        K == {t.key : t \in T}
        sums == SortInts({KeySum(k) : k \in K})
        keys == [i \in 1..Len(sums) |-> CHOOSE k \in K : KeySum(k) = sums[i]]
    IN  [ya |-> ya, yb |-> yb, keys |-> keys,
         in |-> [i \in 1..Len(sums) |->
                   InResult(Winding(T, "subject", sums[i]), Winding(T, "clip", sums[i]))]]

Bands(E) ==
    LET ys == SortInts(EventYs(E))
    IN  [i \in 1..(Len(ys) - 1) |-> Band(E, ys[i], ys[i + 1])]

\* Step 6: the boundary of the included strips, as directed segments with
\* the result on their left.  The side of a strip is a boundary where only
\* one of the two strips it separates is included.
SideSegs(band) ==
    LET n == Len(band.keys)
        leftIn(i) == i > 1 /\ band.in[i - 1]
        down == {[a |-> << band.keys[i][2], band.yb >>, b |-> << band.keys[i][1], band.ya >>]
                   : i \in {j \in 1..n : band.in[j] /\ ~leftIn(j)}}
        up == {[a |-> << band.keys[i][1], band.ya >>, b |-> << band.keys[i][2], band.yb >>]
                 : i \in {j \in 1..n : leftIn(j) /\ ~band.in[j]}}
    IN  down \cup up

\* The X intervals a band's included strips cover on its lower scanline
\* (c = 1) or on its upper one (c = 2).
Cover(band, c) ==
    {<< band.keys[i][c], band.keys[i + 1][c] >>
       : i \in {j \in 1..(Len(band.keys) - 1) : band.in[j]}}

Covered(S, u, v) == \E iv \in S : iv[1] <= u /\ v <= iv[2]

\* The horizontal output edges on one scanline: where the strips above and
\* the strips below do not both cover it.
HorizontalSegs(y, above, below) ==
    LET xs == SortInts({iv[1] : iv \in above \cup below}
                         \cup {iv[2] : iv \in above \cup below})
        I == 1..(Len(xs) - 1)
        bottom == {[a |-> << xs[i], y >>, b |-> << xs[i + 1], y >>]
                     : i \in {j \in I : Covered(above, xs[j], xs[j + 1])
                                        /\ ~Covered(below, xs[j], xs[j + 1])}}
        top == {[a |-> << xs[i + 1], y >>, b |-> << xs[i], y >>]
                  : i \in {j \in I : Covered(below, xs[j], xs[j + 1])
                                     /\ ~Covered(above, xs[j], xs[j + 1])}}
    IN  bottom \cup top

BoundarySegs(bs) ==
    LET n == Len(bs)
    IN  UNION {SideSegs(bs[i]) : i \in 1..n}
          \cup UNION {HorizontalSegs(IF j = 0 THEN bs[1].ya ELSE bs[j].yb,
                                     IF j < n THEN Cover(bs[j + 1], 1) ELSE {},
                                     IF j > 0 THEN Cover(bs[j], 2) ELSE {})
                        : j \in 0..n}

Cross(s, t) ==
    (s.b[1] - s.a[1]) * (t.b[2] - t.a[2]) - (s.b[2] - s.a[2]) * (t.b[1] - t.a[1])

Dot(s, t) ==
    (s.b[1] - s.a[1]) * (t.b[1] - t.a[1]) + (s.b[2] - s.a[2]) * (t.b[2] - t.a[2])

\* a before b on the sweep: lower scanline first, then smaller X.
SweepBefore(a, b) == a[2] < b[2] \/ (a[2] = b[2] /\ a[1] <= b[1])

RECURSIVE TraceRing(_, _, _)
\* Stitch the open ring that ends with segment s to the segment starting at
\* its end point (a left turn first where two rings touch), until it closes.
TraceRing(S, s, acc) ==
    LET C == {t \in S : t.a = s.b}
    IN  IF C = {} THEN acc
        ELSE LET L == {t \in C : Cross(s, t) > 0}
                 t == IF L # {} THEN CHOOSE u \in L : TRUE ELSE CHOOSE u \in C : TRUE
             IN  TraceRing(S \ {t}, t, Append(acc, t))

\* The points of a closed ring of segments, without the points inside a
\* straight run.
RingPoints(r) ==
    LET n == Len(r)
        prev(i) == IF i = 1 THEN n ELSE i - 1
        corner(i) == Cross(r[prev(i)], r[i]) # 0 \/ Dot(r[prev(i)], r[i]) < 0
        idx == SelectSeq([i \in 1..n |-> i], corner)
    IN  [i \in 1..Len(idx) |-> LPt(r[idx[i]].a[1], r[idx[i]].a[2])]

RECURSIVE StitchRings(_)
\* Step 7: close and emit every ring, first the one met first by the sweep.
StitchRings(S) ==
    IF S = {} THEN << >>
    ELSE LET s0 == CHOOSE s \in S : \A t \in S : SweepBefore(s.a, t.a)
             r == TraceRing(S \ {s0}, s0, << s0 >>)
             pts == RingPoints(r)
             rest == StitchRings(S \ {r[i] : i \in 1..Len(r)})
         IN  IF Len(pts) >= 3 /\ LArea2(pts) # 0 THEN << pts >> \o rest ELSE rest

\* clipper.Execute(ctDifference, solutionPaths, pftNonZero, pftNonZero):
\* fails when no edge was added, otherwise the rings of subject \ clips.
Execute(clipper) ==
    LET E == ClipperEdges(clipper)
    IN  IF E = {} THEN [succeeded |-> FALSE, solutionPaths |-> << >>]
        ELSE [succeeded |-> TRUE, solutionPaths |-> StitchRings(BoundarySegs(Bands(E)))]

\* ------------------------------------------------------------ splitSurface
\* Only polylines[0] gets a blade.
AddBladesFirstOnly(clipper, lines, i) ==
    IF Len(lines) = 0 \/ ZeroLength(lines[1]) THEN clipper
    ELSE AddPath(clipper, scaleUpPath(BladePath(lines[1]), scale), "ptClip")

RECURSIVE AddBladesUnscaled(_, _, _)
\* The clip paths added as built, scaleUpPath left out for them.
AddBladesUnscaled(clipper, lines, i) ==
    IF i > Len(lines) THEN clipper
    ELSE IF ZeroLength(lines[i]) THEN AddBladesUnscaled(clipper, lines, i + 1)
    ELSE AddBladesUnscaled(AddPath(clipper, scaleUpPath(BladePath(lines[i]), 1), "ptClip"),
                           lines, i + 1)

RECURSIVE AddBladesBreak(_, _, _)
\* forEach left at the first zero-length line, the lines after it unread.
AddBladesBreak(clipper, lines, i) ==
    IF i > Len(lines) THEN clipper
    ELSE IF ZeroLength(lines[i]) THEN clipper
    ELSE AddBladesBreak(AddPath(clipper, scaleUpPath(BladePath(lines[i]), scale), "ptClip"),
                        lines, i + 1)

RECURSIVE AddBlades(_, _, _)
\* polylines.forEach: a zero-length line is skipped, any other adds its
\* blade, scaled up, as a clip path.
AddBlades(clipper, lines, i) ==
    IF i > Len(lines) THEN clipper
    ELSE IF ZeroLength(lines[i]) THEN AddBlades(clipper, lines, i + 1)
    ELSE AddBlades(AddPath(clipper, scaleUpPath(BladePath(lines[i]), scale), "ptClip"),
                   lines, i + 1)

\* The array of the previous call, kept and pushed to again.
StalePolygons(prior) == prior.polygons

\* const polygons = [] of splitSurface: a new array on every call, whatever
\* the previous call left.
NewPolygons(prior) == << >>

\* One engine kept between the calls, with the paths added so far.
CreateClipperReused(prior) == prior.clipper

\* new ClipperLib.Clipper() of splitSurface: a new engine on every call.
CreateClipper(prior) == NewClipper

\* Every path with points pushed twice.
CollectPolygonsTwice(prior, solutionPaths) ==
    LET nonEmpty(path) == Len(path) > 0
        kept == SelectSeq(solutionPaths, nonEmpty)
        once == [i \in 1..Len(kept) |-> scaleDownPath(kept[i], scale)]
    IN  NewPolygons(prior) \o once \o once

\* Every path with points put in front of the list (unshift for push).
CollectPolygonsReversed(prior, solutionPaths) ==
    LET nonEmpty(path) == Len(path) > 0
        kept == SelectSeq(solutionPaths, nonEmpty)
    IN  NewPolygons(prior)
          \o [i \in 1..Len(kept) |-> scaleDownPath(kept[Len(kept) + 1 - i], scale)]

\* Only the paths of positive area pushed, hole rings left out.
CollectPolygonsOuterOnly(prior, solutionPaths) ==
    LET outer(path) == Len(path) > 0 /\ LArea2(path) > 0
        kept == SelectSeq(solutionPaths, outer)
    IN  NewPolygons(prior) \o [i \in 1..Len(kept) |-> scaleDownPath(kept[i], scale)]

\* solutionPaths.forEach: every path with points is scaled down and pushed.
CollectPolygons(prior, solutionPaths) ==
    LET nonEmpty(path) == Len(path) > 0
        kept == SelectSeq(solutionPaths, nonEmpty)
    IN  NewPolygons(prior) \o [i \in 1..Len(kept) |-> scaleDownPath(kept[i], scale)]

\* What splitSurface returns when Execute did not succeed.
FailedResult(w, h) == << >>

\* The canvas rectangle with its sides exchanged.
NoCutResultSwapped(w, h) == << mainPolygon(h, w) >>

\* What splitSurface returns for an empty polylines list.
NoCutResult(w, h) == << mainPolygon(w, h) >>

\* The outcome of no call yet.
NoMemo ==
    [polygons |-> << >>, clipper |-> NewClipper, executed |-> 0, report |-> "none",
     fault |-> "none"]

\* line.points[1] is there to read; line.points[1].x of a line with fewer
\* than two points throws a TypeError.
Readable(line) == Len(line.points) >= 2

\* splitSurface for the state (width, height, polylines) = (w, h, lines),
\* called after a call that ended as prior: polygons is the returned list,
\* clipper the Clipper object it built (none on the short cut), executed the
\* number of Execute calls, report what console.error was called for, fault
\* the error thrown out of the call (nothing is returned then).
splitSurface(prior, w, h, lines) ==
    IF Len(lines) = 0
    THEN [polygons |-> NoCutResult(w, h), clipper |-> NewClipper,
          executed |-> 0, report |-> "none", fault |-> "none"]
    ELSE IF \E i \in 1..Len(lines) : ~Readable(lines[i])
    THEN [polygons |-> << >>, clipper |-> NewClipper,
          executed |-> 0, report |-> "none", fault |-> "TypeError"]
    ELSE LET subj == scaleUpPath(mainPolygon(w, h), scale)
             c0 == AddPath(CreateClipper(prior), subj, "ptSubject")
             c1 == AddBlades(c0, lines, 1)
             ex == Execute(c1)
         IN  IF ~ex.succeeded
             THEN [polygons |-> FailedResult(w, h), clipper |-> c1,
                   executed |-> 1, report |-> "ClippingFailed", fault |-> "none"]
             ELSE [polygons |-> CollectPolygons(prior, ex.solutionPaths),
                   clipper |-> c1, executed |-> 1, report |-> "none",
                   fault |-> "none"]

\* ------------------------------------------------------- the cut universe
\* A polyline of two points given in canvas units.
Line(x0, y0, x1, y1) ==
    [points |-> << Pt(x0 * Unit, y0 * Unit), Pt(x1 * Unit, y1 * Unit) >>]

\* 'Horizontal Grid' with offsetX = 0, offsetY = 1 on a canvas w wide.
HCut(w) == Line(0, 1, w, 1)

\* 'Vertical Grid' with offsetX = 1, offsetY = 0 on a canvas h high.
VCut(h) == Line(1, 0, 1, h)

\* 'Checkerboard Diagonals' with spacing = width, angle = 45 on a square of
\* side s: the two diagonals.
Diag1(s) == Line(0, 0, s, s)

Diag2(s) == Line(0, s, s, 0)

\* 'Random Lines' with minLength = maxLength = 0: a zero-length line.
ZeroCut == Line(1, 1, 1, 1)

\* 'Random Lines' with minLength = maxLength = 1 from (0.5, 1) at angle 0.
InnerCut ==
    [points |-> << Pt(Unit \div 2, Unit), Pt(Unit + Unit \div 2, Unit) >>]

\* 'Horizontal Grid' with offsetX beyond every canvas: a line outside.
OutsideCut == Line(MaxDim + 2, 1, MaxDim + 3, 1)

\* The sides the grid and diagonal lines were generated for: the smallest
\* and the largest canvas.
Sides == {1, MaxDim}

CutUniverse ==
    {HCut(w) : w \in Sides} \cup {VCut(MaxDim)}
      \cup {Diag1(s) : s \in Sides} \cup {Diag2(s) : s \in Sides}
      \cup {ZeroCut, InnerCut, OutsideCut}

CutLists == UNION {[1..n -> CutUniverse] : n \in 0..MaxCuts}

\* What parseInt(e.target.value) || 0 leaves in width and height for the
\* sizes typed: an empty input gives 0, a negative number itself.
Dims == (-1)..MaxDim

\* ------------------------------------------------------------------ state
\* width, height, polylines: the useState values splitSurface reads.
\* memo: the outcome of the last splitSurface call of useMemo.
\* phase: "idle" before the first render, "done" after a call returned,
\* "crashed" after a call threw.
\* panel: selectedAlgorithm, parameters and selectedColorSet, the useState
\* values of the control panel.
VARIABLES width, height, polylines, memo, phase, panel

vars == << width, height, polylines, memo, phase, panel >>

\* useState(''), useState({}), useState('Sunset'): the panel as mounted.
\* The parameters object is the set of its << name, value >> entries.
MountedPanel ==
    [selectedAlgorithm |-> "", parameters |-> {}, selectedColorSet |-> "Sunset"]

\* const subSurfaces = useMemo(() => splitSurface(), [width, height, polylines])
subSurfaces == memo.polygons

\* Dashboard: Number of Pieces, subSurfaces.length.
pieceCount == Len(subSurfaces)

\* The component before a render, for the sizes typed and the lines
\* generated so far.
Init ==
    /\ width \in Dims
    /\ height \in Dims
    /\ polylines \in CutLists
    /\ memo = NoMemo
    /\ panel = MountedPanel
    /\ phase = "idle"

\* How a render ended: "done" when splitSurface returned, "crashed" when an
\* error was thrown out of it (nothing in the component catches it).
Ended(outcome) == IF outcome.fault = "none" THEN "done" ELSE "crashed"

\* The first render: useMemo calls splitSurface.
FirstRender ==
    /\ phase = "idle"
    /\ memo' = splitSurface(memo, width, height, polylines)
    /\ phase' = Ended(memo')
    /\ UNCHANGED << width, height, polylines, panel >>

\* A render after polylines was set to a new array with the same lines
\* (clearBoard on an empty board, a generation that returned no line):
\* useMemo calls splitSurface again on identical values.
ReRender ==
    /\ phase = "done"
    /\ memo' = splitSurface(memo, width, height, polylines)
    /\ phase' = Ended(memo')
    /\ UNCHANGED << width, height, polylines, panel >>

\* clearBoard emptying the array in place: the same array, so useMemo
\* keeps what it has.
clearBoardInPlace ==
    /\ phase = "done"
    /\ polylines' = << >>
    /\ UNCHANGED << width, height, memo, phase, panel >>

\* clearBoard: setPolylines([]), and the render that follows it.
clearBoard ==
    /\ phase = "done"
    /\ polylines' = << >>
    /\ memo' = splitSurface(memo, width, height, << >>)
    /\ UNCHANGED << width, height, phase, panel >>

Next == FirstRender \/ ReRender \/ clearBoard

Spec == Init /\ [][Next]_vars

\* ------------------------------------------------- the component in use
\* The dependency list of useMemo without height.
memoDepsNoHeight == {"width", "polylines"}

\* [width, height, polylines], the dependency list of useMemo.
memoDeps == {"width", "height", "polylines"}

\* useMemo at the render after a state change: splitSurface is called when
\* a dependency changed (a number by value, the array by identity), the
\* memoised outcome is kept otherwise.
UseMemo(changed, w, h, lines) ==
    IF changed \cap memoDeps # {} THEN splitSurface(memo, w, h, lines) ELSE memo

\* The sizes typed into the inputs while the component is in use.
TypedDims == {0, 1, MaxDim}

\* algorithmParameters, for the algorithms the model has: the names of
\* the parameters of each with their default values.
algorithmParameters ==
    [a \in {"Horizontal Grid", "Random Lines"} |->
        IF a = "Horizontal Grid"
        THEN << [name |-> "spacing", default |-> 50],
                [name |-> "offsetX", default |-> 0],
                [name |-> "offsetY", default |-> 0] >>
        ELSE << [name |-> "numberOfLines", default |-> 10],
                [name |-> "minLength", default |-> 50],
                [name |-> "maxLength", default |-> 200] >>]

RECURSIVE GridLoop(_, _, _)
\* for (let y = from; y < limit; y += spacing): the values y takes, for
\* spacing > 0.
GridLoop(from, limit, spacing) ==
    IF from < limit THEN << from >> \o GridLoop(from + spacing, limit, spacing)
    ELSE << >>

\* algorithms['Horizontal Grid'](w, h, params), for spacing > 0.
HorizontalGrid(w, h, params) ==
    LET ys == GridLoop(params.offsetY, h, params.spacing)
    IN  [k \in 1..Len(ys) |-> Line(params.offsetX, ys[k], w + params.offsetX, ys[k])]

\* algorithms['Vertical Grid'](w, h, params), for spacing > 0.
VerticalGrid(w, h, params) ==
    LET xs == GridLoop(params.offsetX, w, params.spacing)
    IN  [k \in 1..Len(xs) |-> Line(xs[k], params.offsetY, xs[k], h + params.offsetY)]

\* algorithms['Random Lines'](w, h, params) for numberOfLines = 1: the line
\* from (x1, y1) = (r1 * w, r2 * h) at angle 0 with length minLength, for
\* Math.random() returning r1 = 1/4 or 1/2, r2 = 1/2, then 0 and 0.
RandomLines(w, h, params) ==
    {<< [points |-> << Pt(x1, (h * Unit) \div 2),
                       Pt(x1 + params.minLength * Unit, (h * Unit) \div 2) >>] >> :
        x1 \in {(w * Unit) \div 4, (w * Unit) \div 2}}

\* The lists algorithms[algo](w, h, parameters) can return (one for each
\* outcome of Math.random()); none where the call does not return (a grid
\* with spacing <= 0 and a first line to draw) or returns more or longer
\* lines than the model has.
algorithms(algo, w, h, parameters) ==
    LET params == [n \in {e[1] : e \in parameters} |->
                      (CHOOSE e \in parameters : e[1] = n)[2]]
    IN  IF algo = "Horizontal Grid"
        THEN IF params.offsetY >= h THEN {<< >>}
             ELSE IF params.spacing <= 0 THEN {}
             ELSE {HorizontalGrid(w, h, params)}
        ELSE IF params.numberOfLines <= 0 THEN {<< >>}
             ELSE IF params.numberOfLines = 1 /\ params.minLength <= MaxDim
                  THEN RandomLines(w, h, params)
                  ELSE {}

\* The panel after selecting 'Horizontal Grid' and typing 1 into offsetY,
\* and after selecting 'Random Lines' and typing 1 into numberOfLines and
\* 0 or 1 into minLength.
UsedPanels ==
    {[MountedPanel EXCEPT !.selectedAlgorithm = "Horizontal Grid",
                          !.parameters = {<< "spacing", 50 >>, << "offsetX", 0 >>,
                                          << "offsetY", 1 >>}]}
      \cup {[MountedPanel EXCEPT !.selectedAlgorithm = "Random Lines",
                                 !.parameters = {<< "numberOfLines", 1 >>,
                                                 << "minLength", m >>,
                                                 << "maxLength", 200 >>}] : m \in {0, 1}}

\* The component as mounted: the initial useState values, sizes scaled to
\* the model, before the first render.
InitUI ==
    /\ width = MaxDim
    /\ height = 1
    /\ polylines = << >>
    /\ memo = NoMemo
    /\ panel \in UsedPanels
    /\ phase = "idle"

\* onChange of the width input: setWidth(parseInt(e.target.value) || 0).
setWidth ==
    /\ phase = "done"
    /\ \E v \in TypedDims :
          /\ width' = v
          /\ memo' = UseMemo(IF v # width THEN {"width"} ELSE {}, v, height, polylines)
    /\ UNCHANGED << height, polylines, phase, panel >>

\* onChange of the height input: setHeight(parseInt(e.target.value) || 0).
setHeight ==
    /\ phase = "done"
    /\ \E v \in TypedDims :
          /\ height' = v
          /\ memo' = UseMemo(IF v # height THEN {"height"} ELSE {}, width, v, polylines)
    /\ UNCHANGED << width, polylines, phase, panel >>

\* handleAlgorithmGenerate with setPolylines(generatedLines): the lines
\* generated put in the place of the list.
handleAlgorithmGenerateReplacing ==
    /\ phase = "done"
    /\ IF panel.selectedAlgorithm = ""
       THEN UNCHANGED << polylines, memo >>
       ELSE \E generatedLines \in algorithms(panel.selectedAlgorithm, width, height,
                                             panel.parameters) :
               /\ Len(polylines) + Len(generatedLines) <= MaxCuts
               /\ polylines' = generatedLines
               /\ memo' = UseMemo({"polylines"}, width, height, generatedLines)
    /\ UNCHANGED << width, height, phase, panel >>

\* handleAlgorithmGenerate: with no algorithm selected an alert and nothing
\* else; otherwise setPolylines((prev) => [...prev, ...generatedLines]), a
\* new array also when no line was generated.
handleAlgorithmGenerate ==
    /\ phase = "done"
    /\ IF panel.selectedAlgorithm = ""
       THEN UNCHANGED << polylines, memo >>
       ELSE \E generatedLines \in algorithms(panel.selectedAlgorithm, width, height,
                                             panel.parameters) :
               /\ Len(polylines) + Len(generatedLines) <= MaxCuts
               /\ polylines' = polylines \o generatedLines
               /\ memo' = UseMemo({"polylines"}, width, height,
                                  polylines \o generatedLines)
    /\ UNCHANGED << width, height, phase, panel >>

NextUI == FirstRender \/ setWidth \/ setHeight \/ handleAlgorithmGenerate \/ clearBoard

SpecUI == InitUI /\ [][NextUI]_vars

\* --------------------------------------------------- the control panel
\* The defaults of algo spread over the parameters there are:
\* setParameters((prev) => ({ ...prev, ...initialParams })).
InitialParamsOverPrev(algo) ==
    IF algo \in DOMAIN algorithmParameters
    THEN LET meta == algorithmParameters[algo]
             fresh == {<< meta[k].name, meta[k].default >> : k \in 1..Len(meta)}
         IN  {e \in panel.parameters : \A f \in fresh : f[1] # e[1]} \cup fresh
    ELSE panel.parameters

\* The parameters set by handleAlgorithmChange: every parameter of algo
\* with its default; none for a name algorithmParameters does not have.
InitialParams(algo) ==
    IF algo \in DOMAIN algorithmParameters
    THEN LET meta == algorithmParameters[algo]
         IN  {<< meta[k].name, meta[k].default >> : k \in 1..Len(meta)}
    ELSE {}

\* handleAlgorithmChange: setSelectedAlgorithm(algo), setParameters(...),
\* for the options of the select: the algorithms listed, and none.
handleAlgorithmChange ==
    /\ phase = "done"
    /\ \E algo \in DOMAIN algorithmParameters \cup {""} :
          panel' = [panel EXCEPT !.selectedAlgorithm = algo,
                                 !.parameters = InitialParams(algo)]
    /\ UNCHANGED << width, height, polylines, memo, phase >>

\* handleParameterChange(e, paramName) from the number input of a parameter
\* of the selected algorithm, 0 or 1 typed:
\* setParameters((prev) => ({ ...prev, [paramName]: value })).
handleParameterChange ==
    /\ phase = "done"
    /\ panel.selectedAlgorithm # ""
    /\ \E paramName \in {e[1] : e \in panel.parameters}, value \in {0, 1} :
          panel' = [panel EXCEPT !.parameters =
                       {e \in panel.parameters : e[1] # paramName}
                         \cup {<< paramName, value >>}]
    /\ UNCHANGED << width, height, polylines, memo, phase >>

\* onChange of the colour set select: setSelectedColorSet(e.target.value).
setSelectedColorSet ==
    /\ phase = "done"
    /\ \E setName \in {"Sunset", "Ocean"} :
          panel' = [panel EXCEPT !.selectedColorSet = setName]
    /\ UNCHANGED << width, height, polylines, memo, phase >>

\* The component as mounted, on the canvas of the model.
InitPanel ==
    /\ width = MaxDim
    /\ height = MaxDim
    /\ polylines = << >>
    /\ memo = NoMemo
    /\ panel = MountedPanel
    /\ phase = "idle"

SpecPanel ==
    InitPanel /\ [][FirstRender \/ handleAlgorithmChange \/ handleParameterChange
                      \/ setSelectedColorSet \/ handleAlgorithmGenerate
                      \/ clearBoard]_vars

\* -------------------------------------------- cut lists of any shape
\* A cut with one point only, and a cut with none.
OnePointCut == [points |-> << Pt(Unit, Unit) >>]

NoPointCut == [points |-> << >>]

AnyCuts == {HCut(MaxDim), ZeroCut, OnePointCut, NoPointCut}

AnyCutLists == UNION {[1..n -> AnyCuts] : n \in 0..MaxCuts}

\* splitSurface on a canvas and a cut list of any shape a caller can pass.
InitAnyCuts ==
    /\ width \in 1..MaxDim
    /\ height \in 1..MaxDim
    /\ polylines \in AnyCutLists
    /\ memo = NoMemo
    /\ panel = MountedPanel
    /\ phase = "idle"

SpecAnyCuts == InitAnyCuts /\ [][FirstRender \/ ReRender]_vars

\* ------------------------------------------- splitSurface step by step
\* One call of splitSurface taken statement by statement, for its control
\* flow: memo is the call in progress, next the index of the line forEach
\* reads next, calls the calls made on the Clipper object so far (for a
\* clip path, with the index of its line), returned the return statement
\* that ended the call.  What Execute answers is the library's: either.
\* phase is "idle" before the call, "building" in polylines.forEach,
\* "clipping" at clipper.Execute, "done" after the return.
StepCuts == {HCut(MaxDim), Diag1(MaxDim), ZeroCut, OutsideCut}

StepCutLists == UNION {[1..n -> StepCuts] : n \in 0..MaxCuts}

InitSteps ==
    /\ width \in {0, 1, MaxDim}
    /\ height \in {1, MaxDim}
    /\ polylines \in StepCutLists
    /\ memo = [executed |-> 0, report |-> "none", fault |-> "none",
               next |-> 1, calls |-> << >>, returned |-> "nothing"]
    /\ panel = MountedPanel
    /\ phase = "idle"

\* forEach going on after a callback that returned at length === 0, stuck
\* on the same line.
AfterSkippedStay(i) == i

\* forEach going on after a callback that returned at length === 0.
AfterSkipped(i) == i + 1

\* The call up to polylines.forEach: the short cut for an empty list, or
\* the subject path added to a new Clipper.
Begin ==
    /\ phase = "idle"
    /\ IF Len(polylines) = 0
       THEN /\ memo' = [memo EXCEPT !.returned = "mainPolygon"]
            /\ phase' = "done"
       ELSE /\ memo' = [memo EXCEPT
                           !.calls = << [op |-> "AddPath", polyType |-> "ptSubject",
                                         line |-> 0] >>]
            /\ phase' = "building"
    /\ UNCHANGED << width, height, polylines, panel >>

\* One callback of polylines.forEach.
BuildBlade ==
    /\ phase = "building"
    /\ memo.next <= Len(polylines)
    /\ IF ~Readable(polylines[memo.next])
       THEN /\ memo' = [memo EXCEPT !.fault = "TypeError"]
            /\ phase' = "crashed"
       ELSE IF ZeroLength(polylines[memo.next])
       THEN /\ memo' = [memo EXCEPT !.next = AfterSkipped(memo.next)]
            /\ phase' = "building"
       ELSE /\ memo' = [memo EXCEPT
                           !.calls = Append(memo.calls,
                                            [op |-> "AddPath", polyType |-> "ptClip",
                                             line |-> memo.next]),
                           !.next = memo.next + 1]
            /\ phase' = "building"
    /\ UNCHANGED << width, height, polylines, panel >>

\* On to clipper.Execute from anywhere in forEach.
StartClippingEarly ==
    /\ phase = "building"
    /\ phase' = "clipping"
    /\ UNCHANGED << width, height, polylines, memo, panel >>

\* forEach is over: on to clipper.Execute.
StartClipping ==
    /\ phase = "building"
    /\ memo.next > Len(polylines)
    /\ phase' = "clipping"
    /\ UNCHANGED << width, height, polylines, memo, panel >>

\* clipper.Execute and the statements after it, up to the return.
Clip ==
    /\ phase = "clipping"
    /\ \E succeeded \in BOOLEAN :
          memo' = [memo EXCEPT
                      !.executed = memo.executed + 1,
                      !.calls = Append(memo.calls,
                                       [op |-> "Execute", polyType |-> clipType, line |-> 0]),
                      !.report = IF succeeded THEN "none" ELSE "ClippingFailed",
                      !.returned = IF succeeded THEN "polygons" ELSE "[]"]
    /\ phase' = "done"
    /\ UNCHANGED << width, height, polylines, panel >>

NextSteps == Begin \/ BuildBlade \/ StartClipping \/ Clip

SpecSteps == InitSteps /\ [][NextSteps]_vars

\* JavaScript runs the call to its end: no statement waits for anything.
FairSpecSteps == SpecSteps /\ WF_vars(NextSteps)

\* ------------------------------------------------------ coloured cuts
\* A line as 'Gradient Lines' pushes it: with a color next to its points.
Coloured(line, hexColor) == [points |-> line.points, color |-> hexColor]

ColourCuts ==
    {HCut(MaxDim), Coloured(HCut(MaxDim), "#ff0000"), Coloured(HCut(MaxDim), "#0000ff"),
     Coloured(Diag1(MaxDim), "#0000ff"), Coloured(ZeroCut, "#0000ff")}

ColourCutLists == UNION {[1..n -> ColourCuts] : n \in 0..MaxCuts}

InitColour ==
    /\ width \in {1, MaxDim}
    /\ height \in {1, MaxDim}
    /\ polylines \in ColourCutLists
    /\ memo = NoMemo
    /\ panel = MountedPanel
    /\ phase = "idle"

SpecColour == InitColour /\ [][FirstRender \/ ReRender]_vars

\* Every line stroked black.
StrokeBlack(line) == "black"

\* Render Polylines: stroke={line.color} for a line with a color, black
\* for one without.
Stroke(line) ==
    IF "color" \in DOMAIN line /\ line.color # "" THEN line.color ELSE "black"

\* ------------------------------------------------------ measuring results
\* Twice the signed area of a ring of real points, in 1/Unit^2.
Area2(poly) ==
    LET n == Len(poly)
        nx(i) == IF i = n THEN 1 ELSE i + 1
        term(i) == poly[i].x * poly[nx(i)].y - poly[nx(i)].x * poly[i].y
        S[i \in 0..n] == IF i = 0 THEN 0 ELSE S[i - 1] + term(i)
    IN  S[n]

\* b is a with its point list rotated.
SameRing(a, b) ==
    /\ Len(a) = Len(b)
    /\ \E k \in 0..(Len(a) - 1) :
          \A i \in 1..Len(a) : b[i] = a[((i - 1 + k) % Len(a)) + 1]

\* The canvas rectangle [(0,0),(w,0),(w,h),(0,h)] for the current sizes.
CanvasRect ==
    << [x |-> 0, y |-> 0], [x |-> width * Unit, y |-> 0],
       [x |-> width * Unit, y |-> height * Unit], [x |-> 0, y |-> height * Unit] >>

\* Both sizes positive: a canvas.
ValidCanvas == width > 0 /\ height > 0

\* A ring of real points as a path of the sweep, in 1/Unit.
AsPath(poly) == [i \in 1..Len(poly) |-> LPt(poly[i].x, poly[i].y)]

\* The strips between consecutive keys of every band of the edges E, each
\* with twice its area, the winding count of every tag in it (a ring with
\* positive area counts +1 inside itself) and the set of tags whose count
\* is not zero.
StripsOf(E, tags) ==
    LET ys == SortInts(EventYs(E))
        strips(ya, yb) ==
            LET T == {[key |-> KeyOf(e, ya, yb), role |-> e.role, dir |-> e.dir,
                       pid |-> e.pid, k |-> e.k]
                        : e \in {g \in E : g.yb <= ya /\ g.yt >= yb}}
                K == {t.key : t \in T}
                sums == SortInts({KeySum(k) : k \in K})
            IN  {[ya |-> ya, at |-> sums[i],
                  area2 |-> (sums[i + 1] - sums[i]) * (yb - ya),
                  wind |-> [g \in tags |-> -Winding(T, g, sums[i])],
                  inside |-> {g \in tags : Winding(T, g, sums[i]) # 0}]
                   : i \in 1..(Len(sums) - 1)}
    IN  UNION {strips(ys[i], ys[i + 1]) : i \in 1..(Len(ys) - 1)}

RECURSIVE SumArea2(_)
SumArea2(S) ==
    IF S = {} THEN 0
    ELSE LET c == CHOOSE x \in S : TRUE IN c.area2 + SumArea2(S \ {c})

\* The lines of the list that have a blade (tag i for polylines[i]).
Bladed == {i \in 1..Len(polylines) : ~ZeroLength(polylines[i])}

\* Twice the area of (the union of all blades) intersected with the canvas,
\* from the blades as built, before any rounding to the lattice.
BladeCanvasArea2 ==
    LET E == PathEdges(AsPath(CanvasRect), 0, 0)
               \cup UNION {PathEdges(AsPath(BladePath(polylines[i])), i, i) : i \in Bladed}
    IN  SumArea2({c \in StripsOf(E, {0} \cup Bladed)
                    : 0 \in c.inside /\ c.inside # {0}})

\* The length of the boundary of a ring, each edge by |dx| + |dy|.
Perimeter(poly) ==
    LET n == Len(poly)
        nx(i) == IF i = n THEN 1 ELSE i + 1
        S[i \in 0..n] ==
            IF i = 0 THEN 0
            ELSE S[i - 1] + Abs(poly[nx(i)].x - poly[i].x) + Abs(poly[nx(i)].y - poly[i].y)
    IN  S[n]

\* Twice the area tolerance: one lattice step (1/scale) along the boundary
\* of every blade.
AreaTolerance2 ==
    LET S[i \in 0..Len(polylines)] ==
            IF i = 0 THEN 0
            ELSE S[i - 1] + (IF i \in Bladed THEN Perimeter(BladePath(polylines[i])) ELSE 0)
    IN  2 * (Unit \div scale) * S[Len(polylines)]

\* Twice the sum of the areas of the returned polygons, each area taken
\* without sign, and with the sign of its orientation.
SumAbsArea2 ==
    LET S[i \in 0..Len(subSurfaces)] ==
            IF i = 0 THEN 0 ELSE S[i - 1] + Abs(Area2(subSurfaces[i]))
    IN  S[Len(subSurfaces)]

SumSignedArea2 ==
    LET S[i \in 0..Len(subSurfaces)] ==
            IF i = 0 THEN 0 ELSE S[i - 1] + Area2(subSurfaces[i])
    IN  S[Len(subSurfaces)]

CanvasArea2 == 2 * width * Unit * height * Unit

\* ------------------------------------------------------------------ claims
\* C1: with an empty cut list, whatever the width and height, the result is
\* exactly one polygon, the canvas rectangle [(0,0),(w,0),(w,h),(0,h)] up to
\* rotation of the point list, and the clipping engine is not executed.
C1_NoCutsIdentity ==
    (phase = "done" /\ polylines = << >>)
        => /\ Len(subSurfaces) = 1
           /\ SameRing(subSurfaces[1], CanvasRect)
           /\ memo.executed = 0

C1_Witness == phase = "done" /\ polylines = << >> /\ width = MaxDim /\ height = 1

\* C2: for every canvas and every cut list, the sum of the areas of the
\* returned polygons plus the area of (the union of the blades intersected
\* with the canvas) equals width * height, within a tolerance proportional
\* to 1/scale.
C2_AreaConservation ==
    (phase = "done" /\ ValidCanvas)
        => Abs(SumAbsArea2 + BladeCanvasArea2 - CanvasArea2) <= AreaTolerance2

\* C2, with a ring that bounds a hole counted negative.
C2_SignedAreaConservation ==
    (phase = "done" /\ ValidCanvas)
        => Abs(SumSignedArea2 + BladeCanvasArea2 - CanvasArea2) <= AreaTolerance2

C2_Witness ==
    /\ phase = "done" /\ ValidCanvas
    /\ polylines = << InnerCut >>
    /\ Len(subSurfaces) = 2
    /\ Area2(subSurfaces[1]) > 0 /\ Area2(subSurfaces[2]) < 0

\* The list without its i-th line.
Without(lines, i) == [j \in 1..(Len(lines) - 1) |-> IF j < i THEN lines[j] ELSE lines[j + 1]]

\* Two results with the same rings in the same order, each up to rotation
\* of its point list.
SamePartition(A, B) ==
    /\ Len(A) = Len(B)
    /\ \A i \in 1..Len(A) : SameRing(A[i], B[i])

\* C3: on every canvas, for a cut list that contains a zero-length segment
\* the partition is the same as for the list with that segment removed,
\* also when the removal leaves the empty list.
C3_DegenerateCutRobustness ==
    (phase = "done" /\ ValidCanvas)
        => \A i \in 1..Len(polylines) :
              ZeroLength(polylines[i])
                => SamePartition(subSurfaces,
                                 splitSurface(NoMemo, width, height,
                                              Without(polylines, i)).polygons)

C3_Witness ==
    /\ phase = "done" /\ ValidCanvas
    /\ Len(polylines) = 2
    /\ ZeroLength(polylines[1]) /\ ~ZeroLength(polylines[2])
    /\ Len(subSurfaces) = 2

\* Execute was called and did not succeed.
ExecuteFailed == memo.executed = 1 /\ memo.report = "ClippingFailed"

\* C4: whenever Execute does not succeed, the condition is reported and the
\* returned list is exactly the whole canvas rectangle: never empty, piece
\* count 1.
C4_FailureFallback ==
    (phase = "done" /\ ExecuteFailed)
        => /\ pieceCount = 1
           /\ SameRing(subSurfaces[1], CanvasRect)

\* C5: when width or height is not positive the operation refuses to run
\* and reports InvalidCanvas; it returns no polygon list for such sizes.
C5_InvalidCanvasRefused ==
    (phase = "done" /\ ~ValidCanvas) => memo.report = "InvalidCanvas"

\* C6: a computation on the values of the computation before it returns the
\* same polygons, with the same points, in the same order.
C6_Determinism ==
    [][(phase = "done" /\ polylines' = polylines) => subSurfaces' = subSurfaces]_vars

C6_Witness ==
    /\ phase = "done" /\ ValidCanvas
    /\ Len(polylines) = 2 /\ Len(subSurfaces) = 4

\* The strips of the plane cut out by the edges of the returned polygons,
\* tag i for subSurfaces[i].
PieceStrips ==
    LET n == Len(subSurfaces)
        E == UNION {PathEdges(AsPath(subSurfaces[i]), i, i) : i \in 1..n}
    IN  {c \in StripsOf(E, 1..n) : c.area2 > 0}

\* How many times a strip is covered, a ring counting with the sign of its
\* orientation.
Layers(c) ==
    LET n == Len(subSurfaces)
        S[i \in 0..n] == IF i = 0 THEN 0 ELSE S[i - 1] + c.wind[i]
    IN  S[n]

\* C7: two distinct polygons of a returned list never share area.
C7_Disjointness ==
    (phase = "done" /\ ValidCanvas)
        => \A c \in PieceStrips : Cardinality(c.inside) <= 1

\* C7 as the code has it: the rings of positive orientation never share
\* area; a ring that shares area with another one is the boundary of a hole,
\* of negative orientation, and with such rings counted negative no part of
\* the plane is covered more than once.
C7_DisjointUpToHoles ==
    (phase = "done" /\ ValidCanvas)
        => \A c \in PieceStrips :
              /\ Cardinality({i \in c.inside : Area2(subSurfaces[i]) > 0}) <= 1
              /\ Layers(c) \in {0, 1}

C7_Witness ==
    /\ phase = "done" /\ ValidCanvas
    /\ Len(polylines) = 2
    /\ \E c \in PieceStrips : Cardinality(c.inside) = 2 /\ Layers(c) = 0
    /\ \E c \in PieceStrips : Cardinality(c.inside) = 1 /\ Layers(c) = 1

\* The sign of the turn a -> b -> c.
Orient(a, b, c) ==
    LET v == (b.x - a.x) * (c.y - a.y) - (b.y - a.y) * (c.x - a.x)
    IN  IF v > 0 THEN 1 ELSE IF v < 0 THEN -1 ELSE 0

\* c lies on the closed segment a b.
OnSegment(a, b, c) ==
    /\ Orient(a, b, c) = 0
    /\ Min(a.x, b.x) <= c.x /\ c.x <= Max(a.x, b.x)
    /\ Min(a.y, b.y) <= c.y /\ c.y <= Max(a.y, b.y)

\* The closed segments a b and c d have a point in common.
SegmentsMeet(a, b, c, d) ==
    \/ /\ Orient(a, b, c) # Orient(a, b, d)
       /\ Orient(c, d, a) # Orient(c, d, b)
    \/ OnSegment(a, b, c) \/ OnSegment(a, b, d)
    \/ OnSegment(c, d, a) \/ OnSegment(c, d, b)

\* A ring without self-intersection: no repeated point, edges that follow
\* each other meet only in their common point, other edges not at all.
SimpleRing(poly) ==
    LET n == Len(poly)
        nx(i) == IF i = n THEN 1 ELSE i + 1
    IN  /\ \A i, j \in 1..n : i # j => poly[i] # poly[j]
        /\ \A i \in 1..n :
              ~OnSegment(poly[i], poly[nx(i)], poly[nx(nx(i))])
        /\ \A i, j \in 1..n :
              (i < j /\ nx(i) # j /\ nx(j) # i)
                 => ~SegmentsMeet(poly[i], poly[nx(i)], poly[j], poly[nx(j)])

\* C8: every polygon of every returned list has at least 3 points, does not
\* intersect itself and has an area that is not zero.
C8_Simplicity ==
    phase = "done"
        => \A i \in 1..Len(subSurfaces) :
              /\ Len(subSurfaces[i]) >= 3
              /\ SimpleRing(subSurfaces[i])
              /\ Abs(Area2(subSurfaces[i])) > 0

\* poly is the rectangle [x0, x1] x [y0, y1], in 1/Unit.
IsRectangle(poly, x0, y0, x1, y1) ==
    /\ Len(poly) = 4
    /\ {poly[i] : i \in 1..4} = {Pt(x0, y0), Pt(x1, y0), Pt(x1, y1), Pt(x0, y1)}
    /\ Abs(Area2(poly)) = 2 * (x1 - x0) * (y1 - y0)

\* The one horizontal cut (0, c) - (w, c) over the whole width, c = 1.
OneHorizontalCut == polylines = << HCut(width) >>

\* C9: one horizontal cut (0,c)-(w,c) with 0.5 < c < h - 0.5 gives exactly
\* two polygons, the rectangles [0,w] x [0,c-0.5] and [0,w] x [c+0.5,h],
\* whose areas sum to w * (h - 1).
C9_HorizontalCut ==
    (phase = "done" /\ ValidCanvas /\ OneHorizontalCut /\ height >= 2)
        => /\ pieceCount = 2
           /\ \E i, j \in 1..2 :
                 /\ i # j
                 /\ IsRectangle(subSurfaces[i], 0, 0, width * Unit, Unit - Unit \div 2)
                 /\ IsRectangle(subSurfaces[j], 0, Unit + Unit \div 2,
                                width * Unit, height * Unit)
           /\ SumAbsArea2 = 2 * (width * Unit) * ((height - 1) * Unit)

C9_Witness ==
    /\ phase = "done" /\ OneHorizontalCut
    /\ width = MaxDim /\ height = MaxDim
    /\ pieceCount = 2

\* A square canvas cut along both of its diagonals.
BothDiagonals ==
    /\ width = height
    /\ \/ polylines = << Diag1(width), Diag2(width) >>
       \/ polylines = << Diag2(width), Diag1(width) >>

\* The polygons of the list do not share area, and their areas sum to the
\* area of the canvas less the part of it under the blades.
DisjointAndConserving ==
    /\ \A c \in PieceStrips : Cardinality(c.inside) <= 1
    /\ Abs(SumAbsArea2 + BladeCanvasArea2 - CanvasArea2) <= AreaTolerance2

\* C10: a square canvas of any side s cut along both diagonals gives
\* exactly 4 polygons that do not overlap and whose areas sum to the canvas
\* area less the blades' area inside the canvas.
C10_DiagonalCuts ==
    (phase = "done" /\ ValidCanvas /\ BothDiagonals)
        => pieceCount = 4 /\ DisjointAndConserving

\* C10 as the code has it: the same for a side of at least 2; on the square
\* of side 1 the two blades cover the whole canvas.
C10_DiagonalCutsFromSide2 ==
    (phase = "done" /\ BothDiagonals /\ width >= 2)
        => pieceCount = 4 /\ DisjointAndConserving

C10_Witness ==
    /\ phase = "done" /\ BothDiagonals /\ width = MaxDim
    /\ pieceCount = 4
    /\ \A i \in 1..4 : Len(subSurfaces[i]) = 3

\* Some line of the list has a blade, and no blade has area in common with
\* the canvas.
AllBladesOutside == Bladed # {} /\ BladeCanvasArea2 = 0

\* C11: when the blade of every cut lies entirely outside the canvas, the
\* result is the single whole-canvas polygon, as for the empty cut list, and
\* the piece count is 1.
C11_OutsideCuts ==
    (phase = "done" /\ ValidCanvas /\ AllBladesOutside)
        => /\ pieceCount = 1
           /\ SameRing(subSurfaces[1], CanvasRect)
           /\ SamePartition(subSurfaces, NoCutResult(width, height))

C11_Witness ==
    /\ phase = "done" /\ ValidCanvas /\ AllBladesOutside
    /\ polylines = << OutsideCut >>
    /\ memo.executed = 1 /\ pieceCount = 1

\* The blade of a line as the engine gets it: on the lattice.
LatticeBlade(line) == scaleDownPath(scaleUpPath(BladePath(line), scale), scale)

\* The strips of the plane cut out by the canvas (tag 0), the blades (tag
\* -i for polylines[i]) and the returned polygons (tag i for subSurfaces[i]).
CoverStrips ==
    LET n == Len(subSurfaces)
        E == PathEdges(AsPath(CanvasRect), 0, 0)
               \cup UNION {PathEdges(AsPath(LatticeBlade(polylines[i])), -i, -i) : i \in Bladed}
               \cup UNION {PathEdges(AsPath(subSurfaces[i]), i, i) : i \in 1..n}
    IN  {c \in StripsOf(E, {0} \cup {-i : i \in Bladed} \cup 1..n) : c.area2 > 0}

\* The number of blades that cover a strip.
BladesOver(c) == Cardinality({i \in Bladed : -i \in c.inside})

\* C12: a point of the canvas is left out of the region of the result (the
\* rings of the list, a hole ring taking away from the ring around it) iff
\* at least one blade covers it, however many do; a cut that is in the list
\* twice gives the result of the list that has it once.
C12_OneLayerOnly ==
    (phase = "done" /\ ValidCanvas /\ polylines # << >>)
        => /\ \A c \in CoverStrips :
                 Layers(c) = 1 <=> (0 \in c.inside /\ BladesOver(c) = 0)
           /\ \A i, j \in 1..Len(polylines) :
                 (i < j /\ polylines[i] = polylines[j])
                    => SamePartition(subSurfaces,
                                     splitSurface(NoMemo, width, height,
                                                  Without(polylines, j)).polygons)

C12_Witness ==
    /\ phase = "done" /\ ValidCanvas
    /\ polylines = << HCut(MaxDim), HCut(MaxDim) >>
    /\ pieceCount = 2
    /\ \E c \in CoverStrips : 0 \in c.inside /\ BladesOver(c) = 2

\* C13: after any sequence of width changes, height changes, generations
\* and clears, subSurfaces is the partition of the current width, height
\* and polylines, and the piece count shown is its length.
C13_MemoNeverStale ==
    phase = "done"
        => LET fresh == splitSurface(NoMemo, width, height, polylines).polygons
           IN  subSurfaces = fresh /\ pieceCount = Len(fresh)

C13_Witness ==
    /\ phase = "done"
    /\ width = 1 /\ height = MaxDim
    /\ Len(polylines) = 2 /\ polylines[1] = Line(0, 1, MaxDim, 1)
    /\ pieceCount >= 2

TwoOutcomes ==
    /\ memo.fault = "none"
    /\ \/ memo.report = "none" /\ memo.returned \in {"mainPolygon", "polygons"}
       \/ memo.report = "ClippingFailed" /\ memo.returned = "[]"

\* C15: every call of the partition operation on a finite list of segments
\* comes to its end, and it ends as a returned result or as a reported
\* ClippingFailed, nothing else.
C15_Completion ==
    /\ (phase = "idle") ~> (phase = "done")
    /\ [](phase \in {"idle", "building", "clipping", "done"})
    /\ [](phase = "done" => TwoOutcomes)

C15_Witness ==
    /\ phase = "done"
    /\ Len(polylines) = MaxCuts /\ ZeroLength(polylines[1])
    /\ memo.executed = 1 /\ memo.report = "ClippingFailed"

\* The list with the color of every cut taken away.
Uncoloured(lines) == [i \in 1..Len(lines) |-> [points |-> lines[i].points]]

\* C16: the result does not depend on the colours of the cuts (it is the
\* result of the list without colours), computing it leaves every cut as it
\* was, and every cut is stroked with the colour it has.
C16_ColourPassThrough ==
    /\ [](phase = "done"
            => /\ subSurfaces
                    = splitSurface(NoMemo, width, height, Uncoloured(polylines)).polygons
               /\ \A i \in 1..Len(polylines) :
                     "color" \in DOMAIN polylines[i]
                        => Stroke(polylines[i]) = polylines[i].color)
    /\ [][polylines' = polylines]_vars

C16_Witness ==
    /\ phase = "done"
    /\ polylines = << Coloured(HCut(MaxDim), "#ff0000"), Coloured(Diag1(MaxDim), "#0000ff") >>
    /\ Stroke(polylines[2]) = "#0000ff"
    /\ pieceCount = 2

\* The ring has the points of the path, in some order and direction.
SamePoints(ring, path) ==
    /\ Len(ring) = Len(path)
    /\ {ring[i] : i \in 1..Len(ring)} = {path[i] : i \in 1..Len(path)}

\* A list of rings and nothing else: every entry is a list of points x, y,
\* with no mark of outer or hole.
FlatRingList(list) ==
    \A i \in 1..Len(list) :
       \A k \in 1..Len(list[i]) : DOMAIN list[i][k] = {"x", "y"}

\* The blade of InnerCut is the only blade on the canvas, and lies strictly
\* inside it.
OnlyInnerBlade ==
    /\ width >= 2 /\ height >= 2
    /\ \E i \in 1..Len(polylines) : polylines[i] = InnerCut
    /\ \A i \in 1..Len(polylines) : polylines[i] \in {InnerCut, ZeroCut, OutsideCut}

\* C17: the result is a flat list of rings; when the blade of a cut lies
\* strictly inside the canvas the list holds the canvas ring and the
\* boundary of the blade as a ring of its own, and both count as pieces.
C17_FlatRingList ==
    phase = "done"
        => /\ FlatRingList(subSurfaces)
           /\ OnlyInnerBlade
                 => /\ pieceCount = 2
                    /\ \E i, j \in 1..2 :
                          /\ i # j
                          /\ SameRing(subSurfaces[i], CanvasRect)
                          /\ SamePoints(subSurfaces[j], LatticeBlade(InnerCut))

C17_Witness ==
    /\ phase = "done" /\ OnlyInnerBlade
    /\ polylines = << InnerCut, OutsideCut >>
    /\ pieceCount = 2

\* The indices of the lines that have a blade, in the order of the list.
Surviving ==
    LET hasBlade(i) == ~ZeroLength(polylines[i])
    IN  SelectSeq([i \in 1..Len(polylines) |-> i], hasBlade)

\* The canvas as the only subject, then one clip per surviving line in the
\* order of the list, then Execute, once and last.
CallsInOrder ==
    memo.calls
      = << [op |-> "AddPath", polyType |-> "ptSubject", line |-> 0] >>
          \o [k \in 1..Len(Surviving) |->
                [op |-> "AddPath", polyType |-> "ptClip", line |-> Surviving[k]]]
          \o << [op |-> "Execute", polyType |-> "ctDifference", line |-> 0] >>

\* Idle, Building blades, Clipping, Done, in that order.
PhaseOrder ==
    << phase, phase' >>
       \in {<< "idle", "building" >>, << "building", "building" >>,
            << "building", "clipping" >>, << "clipping", "done" >>,
            << "idle", "done" >>}

\* C18: a computation with a non-empty cut list goes through Idle, Building
\* blades, Clipping, Done in that order; the canvas is added as the only
\* subject, every surviving blade as a clip before Execute, Execute runs
\* exactly once and nothing is added after it; with an empty list Execute
\* runs zero times.
C18_OrchestratorOrdering ==
    /\ [][PhaseOrder /\ (Len(polylines) # 0 => << phase, phase' >> # << "idle", "done" >>)]_vars
    /\ [](phase = "done"
            => IF Len(polylines) = 0
               THEN memo.executed = 0 /\ memo.calls = << >>
               ELSE memo.executed = 1 /\ CallsInOrder)
    /\ [](phase = "clipping" => memo.next = Len(polylines) + 1 /\ memo.executed = 0)

C18_Witness ==
    /\ phase = "done"
    /\ Len(polylines) = MaxCuts /\ ZeroLength(polylines[1]) /\ ~ZeroLength(polylines[MaxCuts])
    /\ Len(memo.calls) = MaxCuts + 1

\* The rings with points that Execute emits for the paths of the call.
Emitted ==
    LET nonEmpty(path) == Len(path) > 0
    IN  SelectSeq(Execute(memo.clipper).solutionPaths, nonEmpty)

\* The ring is the emitted path with every coordinate divided by scale.
ScaledBack(ring, path) ==
    /\ Len(ring) = Len(path)
    /\ \A k \in 1..Len(path) :
          /\ ring[k].x * scale = path[k].X * Unit
          /\ ring[k].y * scale = path[k].Y * Unit

\* C19: on success ring i of the returned list is the i-th emitted ring
\* that has points, scaled back by 1/scale; none is reordered, merged,
\* left out or there twice.
C19_ResultOrderPreserved ==
    (phase = "done" /\ memo.executed = 1 /\ memo.report = "none")
        => /\ Len(subSurfaces) = Len(Emitted)
           /\ \A i \in 1..Len(Emitted) : ScaledBack(subSurfaces[i], Emitted[i])

C19_Witness ==
    /\ phase = "done" /\ memo.executed = 1 /\ memo.report = "none"
    /\ pieceCount = 4
    /\ \A i, j \in 1..4 : i # j => subSurfaces[i] # subSurfaces[j]

\* The half-width w = 0.5 of a blade, in 1/Unit and on the lattice.
HalfWidth == Unit \div 2

LatticeHalfWidth == scale \div 2

\* (nx, ny) is w times a unit normal of (dx, dy) for half-width w, as far
\* as coordinates rounded to whole steps can say: square of its length
\* within one step of w * w, and across (dx, dy) within half a step per
\* coordinate.
IsNormalOfLength(nx, ny, dx, dy, w) ==
    /\ Abs(nx * nx + ny * ny - w * w) <= 2 * w + 2
    /\ 2 * Abs(nx * dx + ny * dy) <= Abs(dx) + Abs(dy)

\* B is the blade of the segment p0 p1 for half-width w: 4 points,
\* p0 + n, p1 + n, p1 - n, p0 - n with n = w times a unit normal.
IsBladeOf(B, p0, p1, w) ==
    /\ Len(B) = 4
    /\ LET nx == B[1].x - p0.x
           ny == B[1].y - p0.y
       IN  /\ IsNormalOfLength(nx, ny, p1.x - p0.x, p1.y - p0.y, w)
           /\ B[2] = Pt(p1.x + nx, p1.y + ny)
           /\ B[3] = Pt(p1.x - nx, p1.y - ny)
           /\ B[4] = Pt(p0.x - nx, p0.y - ny)

\* A path of the lattice as points x, y counted in lattice steps.
InSteps(path) == [k \in 1..Len(path) |-> Pt(path[k].X, path[k].Y)]

\* C20: for every cut with distinct endpoints p0, p1 the blade is a polygon
\* of exactly 4 points p0 + w*n, p1 + w*n, p1 - w*n, p0 - w*n with n a unit
\* normal of p1 - p0 and w = 0.5 canvas units, 50 steps on the lattice.
C20_BladeGeometry ==
    phase = "done"
        => \A i \in Bladed :
              LET p0 == polylines[i].points[1]
                  p1 == polylines[i].points[2]
                  ends == InSteps(scaleUpPath(<< p0, p1 >>, scale))
              IN  /\ IsBladeOf(BladePath(polylines[i]), p0, p1, HalfWidth)
                  /\ IsBladeOf(InSteps(scaleUpPath(BladePath(polylines[i]), scale)),
                               ends[1], ends[2], LatticeHalfWidth)

C20_Witness ==
    /\ phase = "done"
    /\ polylines = << Diag2(MaxDim), VCut(MaxDim) >>
    /\ Bladed = {1, 2}

\* ------------------------------------------------ one blade on the bench
\* The forEach body of splitSurface for one line, whatever its direction:
\* the endpoints are taken from a grid of half canvas units around the
\* canvas, memo holds the path built (none for a line of length 0).
GridPoints ==
    {Pt(i * (Unit \div 2), j * (Unit \div 2)) : i, j \in (-1)..(2 * MaxDim)}

\* What the forEach body leaves for one line: the path, or nothing.
BladeOf(line) ==
    IF ZeroLength(line) THEN [built |-> FALSE, path |-> << >>]
    ELSE [built |-> TRUE, path |-> BladePath(line)]

\* The line with its two points exchanged.
Reversed(line) == [line EXCEPT !.points = << line.points[2], line.points[1] >>]

InitBlade ==
    /\ width = MaxDim
    /\ height = MaxDim
    /\ \E p0, p1 \in GridPoints : polylines = << [points |-> << p0, p1 >>] >>
    /\ memo = [built |-> FALSE, path |-> << >>]
    /\ panel = MountedPanel
    /\ phase = "idle"

\* The callback of polylines.forEach on the line.
BuildOneBlade ==
    /\ phase = "idle"
    /\ memo' = BladeOf(polylines[1])
    /\ phase' = "done"
    /\ UNCHANGED << width, height, polylines, panel >>

\* The same segment generated from its other end, and its blade.
ReverseCut ==
    /\ phase = "done"
    /\ polylines' = << Reversed(polylines[1]) >>
    /\ memo' = BladeOf(polylines'[1])
    /\ UNCHANGED << width, height, phase, panel >>

NextBlade == BuildOneBlade \/ ReverseCut

SpecBlade == InitBlade /\ [][NextBlade]_vars

\* C21: every blade built from a cut of non-zero length is a quadrilateral
\* that does not intersect itself, and all blades wind the same way: the
\* signed area has one sign for every direction of the cut, and reversing
\* the endpoints of a cut does not change it.
C21_BladeWinding ==
    /\ [](memo.built => /\ Len(memo.path) = 4
                        /\ SimpleRing(memo.path)
                        /\ Area2(memo.path) > 0)
    /\ [][(memo.built /\ memo'.built)
             => (Area2(memo'.path) > 0 <=> Area2(memo.path) > 0)]_vars

C21_Witness ==
    /\ phase = "done" /\ memo.built
    /\ polylines[1].points[1].x > polylines[1].points[2].x
    /\ polylines[1].points[1].y < polylines[1].points[2].y
    /\ Area2(memo.path) > 0

\* --------------------------------------------- the lattice maps on the bench
\* scaleUpPath and scaleDownPath applied to a path: up, down, and up again.
\* The coordinates are in 1/Unit, ten to a lattice step: -25, -5, 5, 25
\* fall halfway between two lattice points, -4 and 6 do not, 0, 20 and
\* Unit are on the lattice.
LatticeInputs ==
    {Pt(c, -c) : c \in {-25, -5, -4, 0, 5, 6, 20, 25}} \cup {Pt(Unit, 20)}

InitLattice ==
    /\ width = MaxDim
    /\ height = MaxDim
    /\ \E n \in 0..MaxPoints :
          \E path \in [1..n -> LatticeInputs] : polylines = << [points |-> path] >>
    /\ memo = [lattice |-> << >>, back |-> << >>, again |-> << >>]
    /\ panel = MountedPanel
    /\ phase = "idle"

\* scaleUpPath(path, scale)
ScaleUp ==
    /\ phase = "idle"
    /\ memo' = [memo EXCEPT !.lattice = scaleUpPath(polylines[1].points, scale)]
    /\ phase' = "up"
    /\ UNCHANGED << width, height, polylines, panel >>

\* scaleDownPath(path, scale) of what scaleUpPath returned
ScaleDown ==
    /\ phase = "up"
    /\ memo' = [memo EXCEPT !.back = scaleDownPath(memo.lattice, scale)]
    /\ phase' = "down"
    /\ UNCHANGED << width, height, polylines, panel >>

\* scaleUpPath(path, scale) of what scaleDownPath returned
ScaleUpAgain ==
    /\ phase = "down"
    /\ memo' = [memo EXCEPT !.again = scaleUpPath(memo.back, scale)]
    /\ phase' = "done"
    /\ UNCHANGED << width, height, polylines, panel >>

NextLattice == ScaleUp \/ ScaleDown \/ ScaleUpAgain

SpecLattice == InitLattice /\ [][NextLattice]_vars

\* C22: scaleUpPath maps each coordinate c to the integer nearest to
\* c * scale, and an exact half goes away from zero, or to the even
\* neighbour, by one rule for positive and negative coordinates.
C22_LatticeRounding ==
    LET nearest(c, L) == 2 * Abs(c * scale - L * Unit) <= Unit
        tie(c) == (2 * c * scale) % Unit = 0 /\ (c * scale) % Unit # 0
        away(c) == IF c >= 0 THEN FloorDiv(c * scale, Unit) + 1
                   ELSE -(FloorDiv(-c * scale, Unit) + 1)
        even(c) == 2 * FloorDiv(FloorDiv(c * scale, Unit) + 1, 2)
        coords == {<< polylines[1].points[i].x, memo.lattice[i].X >> :
                      i \in 1..Len(memo.lattice)}
                    \cup {<< polylines[1].points[i].y, memo.lattice[i].Y >> :
                            i \in 1..Len(memo.lattice)}
    IN  phase # "idle"
          => /\ Len(memo.lattice) = Len(polylines[1].points)
             /\ \A cL \in coords : nearest(cL[1], cL[2])
             /\ \/ \A cL \in coords : tie(cL[1]) => cL[2] = away(cL[1])
                \/ \A cL \in coords : tie(cL[1]) => cL[2] = even(cL[1])

\* C23: scaling a lattice path down and up again gives it back; scaling a
\* path up and down again gives back every coordinate that is a multiple of
\* 1/scale and moves any other by at most 1/(2*scale); both maps keep the
\* number and the order of the points.
C23_LatticeRoundTrip ==
    LET points == polylines[1].points
        onLattice(c) == (c * scale) % Unit = 0
        close(c, d) == IF onLattice(c) THEN d = c
                       ELSE 2 * scale * Abs(d - c) <= Unit
    IN  /\ phase \in {"up", "down", "done"} => Len(memo.lattice) = Len(points)
        /\ phase \in {"down", "done"}
              => /\ Len(memo.back) = Len(memo.lattice)
                 /\ \A i \in 1..Len(points) :
                       /\ close(points[i].x, memo.back[i].x)
                       /\ close(points[i].y, memo.back[i].y)
        /\ phase = "done" => memo.again = memo.lattice

C23_Witness ==
    /\ phase = "done"
    /\ polylines[1].points = << Pt(25, -25), Pt(Unit, 20), Pt(-4, 4) >>
    /\ memo.lattice = << LPt(3, -2), LPt(scale, 2), LPt(0, 0) >>
    /\ memo.back = << Pt(30, -20), Pt(Unit, 20), Pt(0, 0) >>

\* ------------------------------------------------- a board being resized
\* The component with cuts on the board, coloured and not, at the largest
\* size, then the size inputs changed any number of times.
InitResize ==
    /\ width = MaxDim
    /\ height = MaxDim
    /\ polylines \in ColourCutLists
    /\ memo = NoMemo
    /\ panel = MountedPanel
    /\ phase = "idle"

SpecResize == InitResize /\ [][FirstRender \/ setWidth \/ setHeight]_vars

\* C24: computing a partition leaves width, height and the cut list (its
\* length, its order, the points and the colour of every cut) as they were,
\* and carries nothing to the next computation: the result after a change
\* of width or height is the result of a first computation on the new
\* values.
C24_InputsUntouched ==
    /\ [][polylines' = polylines]_vars
    /\ [][phase = "idle" => (width' = width /\ height' = height)]_vars
    /\ [][(width' # width => height' = height)
            /\ (height' # height => width' = width)]_vars
    /\ [][phase = "done"
            => subSurfaces'
                 = splitSurface(NoMemo, width', height', polylines').polygons]_vars

C24_Witness ==
    /\ phase = "done"
    /\ width = 1 /\ height = MaxDim
    /\ polylines = << Coloured(HCut(MaxDim), "#ff0000"), HCut(MaxDim) >>
    /\ pieceCount = 2

\* ------------------------------------------- polylines of several points
\* A polyline with more points after its first two (canvas units).
Extended(line, more) ==
    [points |-> line.points
                  \o [k \in 1..Len(more) |-> Pt(more[k][1] * Unit, more[k][2] * Unit)]]

\* 'Diamond Grid' with spacing = 2 * s, offset = 0, the diamond of x = 0,
\* y = 0: (0,0), (s,s), (0,2s), (-s,s), (0,0).
Diamond(s) == Extended(Diag1(s), << << 0, 2 * s >>, << -s, s >>, << 0, 0 >> >>)

\* The diamond, its first segment alone, the same segment followed by
\* another third point, and lines of two points.
PolyCuts ==
    {Diamond(MaxDim), Diag1(MaxDim), Extended(Diag1(MaxDim), << << MaxDim, 0 >> >>),
     Extended(HCut(MaxDim), << << MaxDim, 0 >>, << 0, 0 >> >>), VCut(MaxDim)}

InitPoly ==
    /\ width \in {1, MaxDim}
    /\ height \in {1, MaxDim}
    /\ polylines \in UNION {[1..n -> PolyCuts] : n \in 0..MaxCuts}
    /\ memo = NoMemo
    /\ panel = MountedPanel
    /\ phase = "idle"

SpecPoly == InitPoly /\ [][FirstRender \/ ReRender]_vars

\* C25: only the first segment of a polyline cuts: the result is the result
\* of the list with every polyline cut down to its first two points, so
\* polylines that agree on their first two points give the same result.
C25_FirstSegmentOnly ==
    LET firstTwo(line) == [line EXCEPT !.points = SubSeq(line.points, 1, 2)]
        cutDown == [i \in 1..Len(polylines) |-> firstTwo(polylines[i])]
    IN  phase = "done"
          => /\ memo.fault = "none"
             /\ subSurfaces = splitSurface(NoMemo, width, height, cutDown).polygons
             /\ Len(memo.clipper.clip) = Len(polylines)

C25_Witness ==
    /\ phase = "done"
    /\ width = MaxDim /\ height = MaxDim
    /\ polylines = << Diamond(MaxDim), Extended(HCut(MaxDim), << << MaxDim, 0 >>, << 0, 0 >> >>) >>
    /\ Len(polylines[1].points) = 5
    /\ pieceCount >= 2

\* C26: handleAlgorithmGenerate with an algorithm selected puts the lines
\* generated after the cuts there are, which stay as they are and in their
\* order: the list grows by exactly the lines generated; with no algorithm
\* selected, or no line generated, the list is as it was; width, height,
\* the selected algorithm, the parameters and the colour set stay.
C26_GenerateAppends ==
    [][handleAlgorithmGenerate
         => LET n == Len(polylines)
                added == SubSeq(polylines', n + 1, Len(polylines'))
            IN  /\ Len(polylines') >= n
                /\ SubSeq(polylines', 1, n) = polylines
                /\ panel.selectedAlgorithm = "" => added = << >>
                /\ panel.selectedAlgorithm # ""
                     => added \in algorithms(panel.selectedAlgorithm, width, height,
                                             panel.parameters)
                /\ width' = width /\ height' = height /\ panel' = panel]_vars

C26_Witness ==
    /\ phase = "done"
    /\ Len(polylines) = 2
    /\ polylines[1] = Line(0, 0, MaxDim, 0)
    /\ polylines[2] = InnerCut
    /\ panel.selectedAlgorithm = "Random Lines"
    /\ panel.selectedColorSet = "Ocean"

\* C27: after clearBoard, whatever generations and size changes came
\* before, the cut list is empty, the result is the canvas rectangle of the
\* current width and height alone, and the piece count is 1; clearBoard
\* leaves width, height, the selected algorithm, the parameters and the
\* colour set as they were.
C27_ClearResets ==
    /\ [][clearBoard
            => /\ polylines' = << >>
               /\ subSurfaces' = << CanvasRect' >>
               /\ pieceCount' = 1
               /\ width' = width /\ height' = height /\ panel' = panel]_vars
    /\ []((phase = "done" /\ polylines = << >>)
            => (subSurfaces = << CanvasRect >> /\ pieceCount = 1))

C27_Witness ==
    /\ phase = "done"
    /\ polylines = << >>
    /\ width = 1 /\ height = MaxDim
    /\ panel.selectedAlgorithm = "Random Lines"
    /\ subSurfaces = << mainPolygon(1, MaxDim) >>

\* C28: after handleAlgorithmChange for a listed algorithm the parameters
\* are the parameter names of that algorithm with their default values and
\* nothing else; for a name not listed they are empty; the cut list, width
\* and height stay; a later handleParameterChange changes the named
\* parameter and no other.
C28_SelectResetsParameters ==
    /\ [][handleAlgorithmChange
            => LET algo == panel'.selectedAlgorithm
               IN  /\ algo \in DOMAIN algorithmParameters
                        => /\ \A e \in panel'.parameters :
                                 \E k \in 1..Len(algorithmParameters[algo]) :
                                    /\ algorithmParameters[algo][k].name = e[1]
                                    /\ algorithmParameters[algo][k].default = e[2]
                           /\ Cardinality(panel'.parameters)
                                = Len(algorithmParameters[algo])
                   /\ algo \notin DOMAIN algorithmParameters
                        => panel'.parameters = {}
                   /\ polylines' = polylines /\ width' = width /\ height' = height
                   /\ subSurfaces' = subSurfaces]_vars
    /\ [][handleParameterChange
            => /\ {e[1] : e \in panel'.parameters} = {e[1] : e \in panel.parameters}
               /\ Cardinality(panel'.parameters \ panel.parameters) <= 1
               /\ Cardinality(panel'.parameters) = Cardinality(panel.parameters)
               /\ panel'.selectedAlgorithm = panel.selectedAlgorithm
               /\ polylines' = polylines /\ width' = width /\ height' = height]_vars

C28_Witness ==
    /\ phase = "done"
    /\ polylines = << InnerCut >>
    /\ panel.selectedAlgorithm = "Horizontal Grid"
    /\ panel.parameters = {<< "spacing", 1 >>, << "offsetX", 0 >>, << "offsetY", 1 >>}

\* ------------------------------------------ generateLightning, call by call
\* One call generateLightning(lines, x, y, width, height, maxSegments,
\* branchFactor) of 'Lightning Strikes' with its recursive calls: polylines
\* is the lines array, memo.stack the calls that have not returned, the
\* last one on top.  A frame has the maxSegments it was called with (n), its
\* x and y, the end x2, y2 of the segment it pushed, and where it stands:
\* "enter" at its first line, "branching" in the call under
\* if (Math.random() < branchFactor), "main" before the last call, "last" in
\* it.  branchFactor and Math.random() are counted in tenths.
InitLightning ==
    /\ width = MaxDim
    /\ height = MaxDim
    /\ polylines = << >>
    /\ \E n \in 0..MaxSegments, bf \in {0, 3, 10} :
          memo = [maxSegments |-> n, branchFactor |-> bf, stack |-> << >>]
    /\ panel = MountedPanel
    /\ phase = "idle"

\* The call from algorithms['Lightning Strikes'], startX = Math.random() * width.
Strike ==
    /\ phase = "idle"
    /\ \E startX \in {0, (width * Unit) \div 2} :
          memo' = [memo EXCEPT !.stack =
                      << [n |-> memo.maxSegments, x |-> startX, y |-> 0,
                          x2 |-> startX, y2 |-> 0, pc |-> "enter"] >>]
    /\ phase' = "running"
    /\ UNCHANGED << width, height, polylines, panel >>

\* From the first line of a call with maxSegments # 0 to its first
\* recursive call: the segment pushed (length width / 10, angle 0 or 45
\* degrees), then the call under the if when Math.random() < branchFactor.
Segment ==
    /\ phase = "running"
    /\ LET d == Len(memo.stack)
           top == memo.stack[d]
       IN  /\ top.pc = "enter" /\ top.n # 0
           /\ \E step \in {<< (width * Unit) \div 10, 0 >>,
                           << (width * Unit * 707) \div 10000,
                              (width * Unit * 707) \div 10000 >>},
                 random \in {0, 9} :
                 LET x2 == top.x + step[1]
                     y2 == top.y + step[2]
                     here == [top EXCEPT !.x2 = x2, !.y2 = y2]
                 IN  /\ polylines' = Append(polylines,
                                        [points |-> << Pt(top.x, top.y), Pt(x2, y2) >>])
                     /\ memo' = [memo EXCEPT !.stack =
                                   IF random < memo.branchFactor
                                   THEN SubSeq(memo.stack, 1, d - 1)
                                          \o << [here EXCEPT !.pc = "branching"],
                                                [n |-> top.n - 1, x |-> x2, y |-> y2,
                                                 x2 |-> x2, y2 |-> y2, pc |-> "enter"] >>
                                   ELSE SubSeq(memo.stack, 1, d - 1)
                                          \o << [here EXCEPT !.pc = "main"] >>]
    /\ UNCHANGED << width, height, phase, panel >>

\* The last statement of a call left out: no second recursive call.
MainCallSkipped ==
    /\ phase = "running"
    /\ LET d == Len(memo.stack)
       IN  /\ memo.stack[d].pc = "main"
           /\ memo' = [memo EXCEPT !.stack[d].pc = "last"]
    /\ UNCHANGED << width, height, polylines, phase, panel >>

\* The last statement of a call: generateLightning(lines, x2, y2, width,
\* height, maxSegments - 1, branchFactor).
MainCall ==
    /\ phase = "running"
    /\ LET d == Len(memo.stack)
           top == memo.stack[d]
       IN  /\ top.pc = "main"
           /\ memo' = [memo EXCEPT !.stack =
                         SubSeq(memo.stack, 1, d - 1)
                           \o << [top EXCEPT !.pc = "last"],
                                 [n |-> top.n - 1, x |-> top.x2, y |-> top.y2,
                                  x2 |-> top.x2, y2 |-> top.y2, pc |-> "enter"] >>]
    /\ UNCHANGED << width, height, polylines, phase, panel >>

\* A call returns: at if (maxSegments === 0) return, or after its last
\* call returned; the caller goes on behind the call it was in.
Return ==
    /\ phase = "running"
    /\ LET d == Len(memo.stack)
           top == memo.stack[d]
       IN  /\ (top.pc = "enter" /\ top.n = 0) \/ top.pc = "last"
           /\ memo' = [memo EXCEPT !.stack =
                         IF d = 1 THEN << >>
                         ELSE SubSeq(memo.stack, 1, d - 2)
                                \o << [memo.stack[d - 1] EXCEPT !.pc =
                                         IF @ = "branching" THEN "main" ELSE @] >>]
           /\ phase' = IF d = 1 THEN "done" ELSE "running"
    /\ UNCHANGED << width, height, polylines, panel >>

NextLightning == Strike \/ Segment \/ MainCall \/ Return

SpecLightning == InitLightning /\ [][NextLightning]_vars

\* JavaScript runs a call to its end: a step that can be taken is taken.
FairSpecLightning == SpecLightning /\ WF_vars(NextLightning)

\* C29: for every maxSegments >= 0 and every branchFactor generateLightning
\* returns, whatever Math.random() gives; the calls nested under the first
\* one are never more than maxSegments; it pushes at least maxSegments and at
\* most 2^maxSegments - 1 segments, the first from the x, y of the call and
\* every other from the end of the segment of the call that made its call.
C29_LightningTerminates ==
    LET Pow2[k \in 0..(MaxSegments + 1)] == IF k = 0 THEN 1 ELSE 2 * Pow2[k - 1]
        n == memo.maxSegments
        d == Len(memo.stack)
    IN  /\ <>(phase = "done")
        /\ [](/\ d <= n + 1
              /\ \A k \in 1..d : memo.stack[k].n = n - (k - 1)
              /\ Len(polylines) <= Pow2[n] - 1
              /\ \A i \in 2..Len(polylines) :
                    \E j \in 1..(i - 1) :
                       polylines[i].points[1] = polylines[j].points[2]
              /\ \A k \in 2..d :
                    /\ memo.stack[k].x = memo.stack[k - 1].x2
                    /\ memo.stack[k].y = memo.stack[k - 1].y2)
        /\ [](phase = "done" => (d = 0 /\ Len(polylines) >= n))

C29_Witness ==
    /\ phase = "done"
    /\ memo.maxSegments = MaxSegments
    /\ memo.branchFactor = 3
    /\ Len(polylines) > MaxSegments
    /\ \E i, j \in 1..Len(polylines) :
          i < j /\ polylines[i].points[1] = polylines[j].points[1]

\* ------------------------------------------------------- the grid loops
\* One call of algorithms['Horizontal Grid'] or algorithms['Vertical Grid']
\* with its for loop taken one iteration at a time.  memo holds the
\* generator called, its params and the loop variable (y of the horizontal
\* grid, x of the vertical one); polylines is the lines array of the call.
InitGrid ==
    /\ width \in 1..MaxDim
    /\ height \in 1..MaxDim
    /\ polylines = << >>
    /\ \E generator \in {"Horizontal Grid", "Vertical Grid"},
          spacing \in 1..MaxDim, offsetX \in Dims, offsetY \in Dims :
          memo = [generator |-> generator,
                  params |-> [spacing |-> spacing, offsetX |-> offsetX,
                              offsetY |-> offsetY],
                  at |-> 0]
    /\ panel = MountedPanel
    /\ phase = "idle"

\* The bound of the loop: y < height, x < width.
GridLimit == IF memo.generator = "Horizontal Grid" THEN height ELSE width

\* const lines = []; let y = offsetY (let x = offsetX).
GridCall ==
    /\ phase = "idle"
    /\ memo' = [memo EXCEPT !.at = IF memo.generator = "Horizontal Grid"
                                   THEN memo.params.offsetY
                                   ELSE memo.params.offsetX]
    /\ phase' = "running"
    /\ UNCHANGED << width, height, polylines, panel >>

\* An iteration that pushes the line without the offset across it.
GridPushNoOffset ==
    /\ phase = "running"
    /\ memo.at < GridLimit
    /\ polylines' = Append(polylines,
                       IF memo.generator = "Horizontal Grid"
                       THEN Line(0, memo.at, width, memo.at)
                       ELSE Line(memo.at, 0, memo.at, height))
    /\ memo' = [memo EXCEPT !.at = memo.at + memo.params.spacing]
    /\ UNCHANGED << width, height, phase, panel >>

\* One iteration: the test passes, lines.push({ id, points }), then
\* y += spacing (x += spacing).
GridPush ==
    /\ phase = "running"
    /\ memo.at < GridLimit
    /\ polylines' = Append(polylines,
                       IF memo.generator = "Horizontal Grid"
                       THEN Line(memo.params.offsetX, memo.at,
                                 width + memo.params.offsetX, memo.at)
                       ELSE Line(memo.at, memo.params.offsetY,
                                 memo.at, height + memo.params.offsetY))
    /\ memo' = [memo EXCEPT !.at = memo.at + memo.params.spacing]
    /\ UNCHANGED << width, height, phase, panel >>

\* The test fails: return lines.
GridReturn ==
    /\ phase = "running"
    /\ ~(memo.at < GridLimit)
    /\ phase' = "done"
    /\ UNCHANGED << width, height, polylines, memo, panel >>

NextGrid == GridCall \/ GridPush \/ GridReturn

SpecGrid == InitGrid /\ [][NextGrid]_vars

\* A call, once made, runs on: JavaScript runs it to its end.
FairSpecGrid == SpecGrid /\ WF_vars(NextGrid)

\* The number of k = 0, 1, 2, ... with offset + k * spacing < limit.
GridCount(offset, limit, spacing) ==
    IF offset >= limit THEN 0 ELSE ((limit - offset - 1) \div spacing) + 1

\* C30: for spacing > 0 a call of the Horizontal Grid generator returns,
\* and what it returns is exactly one line for each y = offsetY + k*spacing
\* (k = 0, 1, 2, ...) below height, in that order, from (offsetX, y) to
\* (width + offsetX, y), so no line when offsetY >= height; the Vertical
\* Grid generator does the same with x, offsetX and width in the place of
\* y, offsetY and height, its lines from (x, offsetY) to (x, height + offsetY).
C30_GridTerminates ==
    LET p == memo.params
        horizontal == memo.generator = "Horizontal Grid"
        count == IF horizontal THEN GridCount(p.offsetY, height, p.spacing)
                 ELSE GridCount(p.offsetX, width, p.spacing)
        expected ==
            [k \in 1..count |->
                IF horizontal
                THEN [points |->
                        << Pt(p.offsetX * Unit, (p.offsetY + (k - 1) * p.spacing) * Unit),
                           Pt((width + p.offsetX) * Unit,
                              (p.offsetY + (k - 1) * p.spacing) * Unit) >>]
                ELSE [points |->
                        << Pt((p.offsetX + (k - 1) * p.spacing) * Unit, p.offsetY * Unit),
                           Pt((p.offsetX + (k - 1) * p.spacing) * Unit,
                              (height + p.offsetY) * Unit) >>]]
    IN  /\ <>(phase = "done")
        /\ [](Len(polylines) <= count)
        /\ [](phase = "done" =>
                /\ polylines = expected
                /\ (p.offsetY >= height /\ horizontal) => polylines = << >>
                /\ polylines = IF horizontal THEN HorizontalGrid(width, height, p)
                               ELSE VerticalGrid(width, height, p))

C30_Witness ==
    /\ phase = "done"
    /\ memo.generator = "Vertical Grid"
    /\ memo.params.offsetX = -1
    /\ memo.params.offsetY = 1
    /\ memo.params.spacing = 1
    /\ width = MaxDim
    /\ Len(polylines) = MaxDim + 1

====
